---- MODULE Spec2Model ----
(***************************************************************************)
(* F1 dashboard: the season standings aggregation                          *)
(* (SeasonComponent.create_season_summary, src/components/season.py) and   *)
(* the callback that runs it (load_initial_data, src/app.py).              *)
(*                                                                         *)
(* One run of load_initial_data is modelled step by step: the two Ergast   *)
(* loads, the schedule fetch and date filter, then per completed event the *)
(* race load, the optional sprint load and the accumulation of the         *)
(* standings records, then the pivot / total / sort / hover construction   *)
(* of the figure and finally the callback's return or its except branch.   *)
(* The data provider (fastf1 / Ergast) is the environment: what it returns *)
(* is chosen when the code asks for it.                                    *)
(*                                                                         *)
(* Spec is one call. SpecSeasons lets call follow call as the year         *)
(* selector changes. SpecInAnyRowOrder, SpecOfAnyName and SpecWithRepeats  *)
(* are one call with a wider provider: schedule rows in any order, events  *)
(* of any name, race results that repeat an abbreviation. SpecBrowser has  *)
(* several calls of one page running side by side, each followed through   *)
(* its try block only.                                                     *)
(*                                                                         *)
(* The other callbacks of the page (update_world_map,                      *)
(* handle_circuit_selection, update_3d_visualization,                      *)
(* update_results_content) and create_qualifying_chart are functions of    *)
(* their arguments and of what the provider answers. SpecWorldMap,         *)
(* SpecSelection, SpecTrack, SpecResults and SpecQualifying apply one of   *)
(* them to every argument of a bounded domain; SpecPage chains them as the *)
(* page does, under a user who picks years, clicks the map and switches    *)
(* tabs.                                                                   *)
(***************************************************************************)
EXTENDS Integers, Sequences, FiniteSets, TLC

\* ------------------------------------------------------------------ bounds
\* Longest schedule the provider returns.
MaxEvents == 2

\* Longest event name, in words and blanks.
MaxNameLen == 3

\* Calls of load_initial_data the browser fires: the one of the page load
\* and one per change of the year selector.
MaxRequests == 2

\* Longest race schedule of a season in the races-data store.
MaxRaces == 2

\* Most drivers in the qualifying results of one race.
MaxQualifiers == 16

\* ------------------------------------------------------- provider's domain
None == "None"
NA == "N/A"
ProviderError == "ProviderFetchError"
KeyError == "KeyError"
ValueError == "ValueError"

\* Seasons the year selector offers; one per name F1 gave the sprint format.
Seasons == {2022, 2023, 2024}

\* The format name a sprint weekend carries in a season (season.py:31-34).
SprintFormatOf(season) ==
  IF season >= 2024 THEN "sprint_qualifying"
  ELSE IF season = 2023 THEN "sprint_shootout"
  ELSE "sprint"

SprintFormats == {"sprint", "sprint_shootout", "sprint_qualifying"}

\* Driver abbreviations in alphabetical order (the order pandas sorts an index).
Alphabet == <<"A", "B">>
Drivers == {Alphabet[k] : k \in 1..Len(Alphabet)}
Rank(d) == CHOOSE k \in 1..Len(Alphabet) : Alphabet[k] = d

RacePointValues == {18, 25}
SprintPointValues == {4}

\* Event names by round number, as the words and blanks they are made of.
GP == "Grand Prix"
EventNames == <<
  <<"Bahrain", " ", GP>>,
  <<GP, " ", "de", " ", "Monaco">>,
  <<"Miami", " ", GP, " ">>,
  <<"70th", " ", "Anniversary">> >>

InjSeqs(S) ==
  {s \in UNION {[1..n -> S] : n \in 0..Cardinality(S)} :
     \A a, b \in DOMAIN s : a # b => s[a] # s[b]}

\* A results frame: one row per classified driver, Position its row number.
Frame(ds, ps) ==
  [k \in 1..Len(ds) |->
     [Abbreviation |-> ds[k], Points |-> ps[k], Position |-> ToString(k)]]

\* The frames a session can come back with: any classification of distinct
\* drivers in which a better place has scored more points.
Frames(P) ==
  UNION {{Frame(ds, ps) : ps \in {q \in [1..Len(ds) -> P] :
                                    \A a, b \in DOMAIN q : a < b => q[a] > q[b]}} :
           ds \in InjSeqs(Drivers)}

RaceFrames == Frames(RacePointValues)
SprintFrames == Frames(SprintPointValues)

\* A season's schedule: rounds 1..n in calendar order, event k on day k.
Event(season, k, sprintWeekend) ==
  [EventName |-> EventNames[k], RoundNumber |-> k, EventDate |-> k,
   EventFormat |-> IF sprintWeekend THEN SprintFormatOf(season)
                   ELSE "conventional"]

Schedules(season) ==
  UNION {{[k \in 1..n |-> Event(season, k, sw[k])] : sw \in [1..n -> BOOLEAN]} :
           n \in 0..MaxEvents}

\* The clock: the calendar day and whether midnight has passed. The time of
\* day is only told apart on a day that has an event.
Clocks(sched) ==
  {[day |-> d, late |-> l] : d \in 1..(Len(sched) + 1), l \in BOOLEAN} \
  {[day |-> Len(sched) + 1, late |-> TRUE]}

\* ------------------------------------------------------------------- state
VARIABLES
  selected_year,     \* value of the year selector the callback was fired with
  called,            \* whether load_initial_data has been called before
  pc,                \* where the run of load_initial_data stands
  circuits_df,       \* load_initial_data: circuits_df
  races_df,          \* load_initial_data: races_df
  provided,          \* the schedule as the provider returned it
  now,               \* pd.to_datetime('today') as read by the filter
  schedule,          \* create_season_summary: schedule after the date filter
  i,                 \* position of the loop over schedule.iterrows()
  short_event_names, \* create_season_summary: short_event_names
  race,              \* results of the race session of the current event
  sprint,            \* results of the sprint session, or NoSprint (None)
  standings,         \* create_season_summary: standings
  loads,             \* every session load asked of the provider, in order
  exc,               \* the exception raised, None while there is none
  logged,            \* what the call has written with logger.error
  circuits_data,     \* the call's value for Output('circuits-data', 'data')
  races_data,        \* the call's value for Output('races-data', 'data')
  season_summary,    \* the call's value for Output('season-summary', 'figure')
  selector,          \* the browser: value of the year selector
  requests,          \* the browser: the calls of load_initial_data it has fired
  shown,             \* the browser: what the three outputs hold
  world_map,         \* the page: Output('world-map', 'figure')
  map_call,          \* the arguments create_circuits_map was last called with
  click_data,        \* the page: world-map.clickData
  selected_circuit_data, \* the page: the store selected-circuit-data
  circuit_info_panel,    \* the page: circuit-info-panel.children
  detailed_section,  \* the page: detailed-section.style
  track_loads,       \* provider loads of the last update_3d_visualization
  track_figures,     \* the page: track-3d, elevation-profile, result-positions
  active_tab,        \* the page: results-tabs.active_tab
  results_loads,     \* provider loads of the last update_results_content
  tab_content,       \* the page: tab-content.children
  qualifying_data,   \* create_qualifying_chart: qualifying_data
  qualifying_chart,  \* create_qualifying_chart: the traces of its figure
  pending            \* the page's callbacks whose inputs have changed

\* The browser's side, which one call of load_initial_data does not touch.
page == <<world_map, map_call, click_data, selected_circuit_data,
          circuit_info_panel, detailed_section, track_loads, track_figures,
          active_tab, results_loads, tab_content, qualifying_data,
          qualifying_chart, pending>>

browser == <<selector, requests, shown, page>>

\* One call of load_initial_data, which the browser's side does not touch.
call == <<selected_year, called, pc, circuits_df, races_df, provided, now,
          schedule, i, short_event_names, race, sprint, standings, loads, exc,
          logged, circuits_data, races_data, season_summary>>

vars == <<selected_year, called, pc, circuits_df, races_df, provided, now,
          schedule, i, short_event_names, race, sprint, standings, loads, exc,
          logged, circuits_data, races_data, season_summary, browser>>

\* Values of the three outputs; Unset until the call has returned.
Unset == [kind |-> "None"]
EmptyList == [kind |-> "list", records |-> <<>>]
Records(df) == [kind |-> "list", records |-> df]

\* The three outputs as the browser holds them.
Outputs(circuits, races, figure) ==
  [circuits_data |-> circuits, races_data |-> races, season_summary |-> figure]
NothingShown == Outputs(Unset, Unset, Unset)

\* sprint = None
NoSprint == [loaded |-> FALSE, results |-> <<>>]
Loaded(frame) == [loaded |-> TRUE, results |-> frame]

\* ----------------------------------------------------------- pure functions
RECURSIVE SumSeq(_)
SumSeq(s) == IF Len(s) = 0 THEN 0 ELSE s[1] + SumSeq(Tail(s))

\* schedule['EventDate'] < pd.to_datetime('today'): EventDate is midnight of
\* the event's day, the right-hand side a timestamp with its time of day.
HasOccurred(event, clock) ==
  \/ event.EventDate < clock.day
  \/ event.EventDate = clock.day /\ clock.late

FilterOccurred(sched, clock) ==
  SelectSeq(sched, LAMBDA e : HasOccurred(e, clock))

\* FetchesSprint without the test of the format.
FetchesSprintAlways(event) == TRUE

\* The condition under which the sprint session is loaded.
FetchesSprint(event) == event.EventFormat = "sprint_qualifying"

\* sprint.results[sprint.results["Abbreviation"] == abbreviation], then
\* ["Points"].values[0] when the selection is not empty.
SprintPointsOf(sprintSession, abbreviation) ==
  IF ~sprintSession.loaded THEN 0
  ELSE LET driver_row == SelectSeq(sprintSession.results,
                                   LAMBDA r : r.Abbreviation = abbreviation)
       IN IF Len(driver_row) = 0 THEN 0 ELSE driver_row[1].Points

\* ff1.plotting.get_driver_name(abbreviation, race)
DriverFullName(abbreviation) == "Driver " \o abbreviation

\* The record appended for one row of race.results.
StandingsRecord(event, driver_row, sprintSession) ==
  [EventName |-> event.EventName,
   RoundNumber |-> event.RoundNumber,
   Driver |-> driver_row.Abbreviation,
   DriverFullName |-> DriverFullName(driver_row.Abbreviation),
   Abbreviation |-> driver_row.Abbreviation,
   Points |-> driver_row.Points
                + SprintPointsOf(sprintSession, driver_row.Abbreviation),
   Position |-> driver_row.Position]

EventRecords(event, raceResults, sprintSession) ==
  [k \in 1..Len(raceResults) |->
     StandingsRecord(event, raceResults[k], sprintSession)]

\* Ascending sequence of a set of integers / alphabetical sequence of a set
\* of drivers: the order in which pivot lays out its columns and its index.
RECURSIVE SortedInts(_)
SortedInts(S) ==
  IF S = {} THEN <<>>
  ELSE LET m == CHOOSE x \in S : \A y \in S : x <= y
       IN <<m>> \o SortedInts(S \ {m})

RECURSIVE SortedDrivers(_)
SortedDrivers(S) ==
  IF S = {} THEN <<>>
  ELSE LET m == CHOOSE x \in S : \A y \in S : Rank(x) <= Rank(y)
       IN <<m>> \o SortedDrivers(S \ {m})

\* PivotColumns laying the columns out in the order the rounds are first met.
RECURSIVE FirstSeen(_, _)
FirstSeen(s, seen) ==
  IF Len(s) = 0 THEN <<>>
  ELSE IF Head(s) \in seen THEN FirstSeen(Tail(s), seen)
  ELSE <<Head(s)>> \o FirstSeen(Tail(s), seen \cup {Head(s)})

PivotColumnsAsSeen(df) ==
  FirstSeen([k \in DOMAIN df |-> df[k].RoundNumber], {})

PivotIndex(df) == SortedDrivers({df[k].Driver : k \in DOMAIN df})
PivotColumns(df) == SortedInts({df[k].RoundNumber : k \in DOMAIN df})

\* HasDuplicateEntries of a pivot that keeps the first of several entries.
HasDuplicateEntriesNever(df) == FALSE

\* df.pivot raises ValueError when an (index, column) pair occurs twice.
HasDuplicateEntries(df) ==
  \E a, b \in DOMAIN df :
    a # b /\ df[a].Driver = df[b].Driver /\ df[a].RoundNumber = df[b].RoundNumber

\* The values the records of df hold for (driver, round).
Entries(df, driver, round) ==
  SelectSeq(df, LAMBDA r : r.Driver = driver /\ r.RoundNumber = round)

\* df.pivot(index="Driver", columns="RoundNumber", values="Points").fillna(0)
PointsCell(df, driver, round) ==
  LET e == Entries(df, driver, round)
  IN IF Len(e) = 0 THEN 0 ELSE e[1].Points

\* PositionCell filling a missing position with 0, as the points pivot does.
PositionCellZero(df, driver, round) ==
  LET e == Entries(df, driver, round)
  IN IF Len(e) = 0 THEN "0" ELSE e[1].Position

\* df.pivot(index="Driver", columns="RoundNumber", values="Position").fillna("N/A")
PositionCell(df, driver, round) ==
  LET e == Entries(df, driver, round)
  IN IF Len(e) = 0 THEN NA ELSE e[1].Position

\* One row of heatmap_data: the driver's cells in column order.
PointsRow(df, driver) ==
  LET columns == PivotColumns(df)
  IN [c \in 1..Len(columns) |-> PointsCell(df, driver, columns[c])]

\* TotalPoints leaving the first round out of the sum.
TotalPointsSkipsFirst(df, driver) ==
  LET row == PointsRow(df, driver)
  IN IF Len(row) = 0 THEN 0 ELSE SumSeq(Tail(row))

\* heatmap_data.sum(axis=1) for one driver.
TotalPoints(df, driver) == SumSeq(PointsRow(df, driver))

\* The orders of the pivot's index.
IndexOrders(df) ==
  LET index == PivotIndex(df)
  IN {order \in [1..Len(index) -> {index[k] : k \in DOMAIN index}] :
        \A a, b \in DOMAIN order : a # b => order[a] # order[b]}

\* SortedIndexes with ascending=False.
SortedIndexesDescending(df) ==
  {order \in IndexOrders(df) :
     \A a, b \in DOMAIN order :
       a < b => TotalPoints(df, order[a]) >= TotalPoints(df, order[b])}

\* heatmap_data.sort_values(by="total_points", ascending=True): the sort is
\* not a stable one, rows of equal total may come out in either order.
SortedIndexes(df) ==
  {order \in IndexOrders(df) :
     \A a, b \in DOMAIN order :
       a < b => TotalPoints(df, order[a]) <= TotalPoints(df, order[b])}

\* df.loc[df["Driver"] == driver, "DriverFullName"].values[0]
FullNameIn(df, driver) ==
  SelectSeq(df, LAMBDA r : r.Driver = driver)[1].DriverFullName

\* HoverInfo taking the drivers from the pivot's index as it was before the
\* sort instead of from heatmap_data.index.
HoverInfoInIndexOrder(df, sched, order) ==
  LET index == SortedDrivers({df[k].Driver : k \in DOMAIN df})
  IN [j \in 1..Len(index) |->
        [c \in 1..Len(sched) |->
           [position |->
              LET e == SelectSeq(df, LAMBDA r :
                         r.Driver = index[j]
                           /\ r.RoundNumber = sched[c].RoundNumber)
              IN IF Len(e) = 0 THEN NA ELSE e[1].Position,
            driver_full_name |-> "Driver " \o index[j]]]]

\* hover_info: per driver of the sorted index, per round of the schedule.
HoverInfo(df, sched, order) ==
  [j \in 1..Len(order) |->
     [c \in 1..Len(sched) |->
        [position |-> PositionCell(df, order[j], sched[c].RoundNumber),
         driver_full_name |-> FullNameIn(df, order[j])]]]

\* position_data.at[driver, race] raises KeyError for a round that is no column.
HoverKeyError(df, sched) ==
  \E c \in DOMAIN sched :
    sched[c].RoundNumber \notin {df[k].RoundNumber : k \in DOMAIN df}

\* The figure: the heatmap trace (x, y, z, customdata) and the totals trace.
Figure(df, sched, names, order) ==
  [kind |-> "figure",
   x |-> names,
   y |-> order,
   columns |-> PivotColumns(df),
   z |-> [j \in 1..Len(order) |-> PointsRow(df, order[j])],
   customdata |-> HoverInfo(df, sched, order),
   total_points |-> [j \in 1..Len(order) |-> TotalPoints(df, order[j])]]

Raised(e) == [kind |-> "raise", exc |-> e]

\* Lines 68-150: what the code after the loop yields, an exception or a figure.
SummaryOutcomes(df, sched, names) ==
  IF Len(df) = 0 THEN {Raised(KeyError)}
  ELSE IF HasDuplicateEntries(df) THEN {Raised(ValueError)}
  ELSE IF HoverKeyError(df, sched) THEN {Raised(KeyError)}
  ELSE {Figure(df, sched, names, order) : order \in SortedIndexes(df)}

\* event_name.replace("Grand Prix", "").strip()
RECURSIVE Strip(_)
Strip(name) ==
  IF Len(name) = 0 THEN name
  ELSE IF Head(name) = " " THEN Strip(Tail(name))
  ELSE IF name[Len(name)] = " " THEN Strip(SubSeq(name, 1, Len(name) - 1))
  ELSE name

\* ShortEventName removing the first occurrence only.
ShortEventNameFirstOnly(event_name) ==
  LET at == {k \in DOMAIN event_name : event_name[k] = GP}
  IN Strip(IF at = {} THEN event_name
           ELSE LET first == CHOOSE k \in at : \A m \in at : k <= m
                IN SubSeq(event_name, 1, first - 1)
                     \o SubSeq(event_name, first + 1, Len(event_name)))

ShortEventName(event_name) ==
  Strip(SelectSeq(event_name, LAMBDA w : w # GP))

\* What the Ergast loads of load_initial_data return for a season.
CircuitsOf(season) == <<[season |-> season, circuitId |-> "c1"]>>
RacesOf(season) == <<[season |-> season, round |-> 1, circuitId |-> "c1"]>>

\* One entry of the provider's log: session.load() of (round, session).
LoadEntry(event, session, ok, results) ==
  [Season |-> selected_year, RoundNumber |-> event.RoundNumber,
   Session |-> session, ok |-> ok, results |-> results]

\* str(e) of the exception the callback catches. The code adds nothing to
\* it: a provider error carries the provider's own text, which may name the
\* season and the round of the session it failed on or not (0: not named).
ErrorTexts(e) ==
  {[error |-> e, season |-> 0, round |-> 0]} \cup
  IF e = ProviderError /\ pc \in {"race", "sprint"}
  THEN {[error |-> e, season |-> selected_year,
         round |-> schedule[i].RoundNumber]}
  ELSE {}

\* ------------------------------------------------------------------ actions
InitCall ==
  /\ selected_year \in Seasons
  /\ called = FALSE
  /\ pc = "load_circuits"
  /\ circuits_df = <<>>
  /\ races_df = <<>>
  /\ provided = <<>>
  /\ now = [day |-> 0, late |-> FALSE]
  /\ schedule = <<>>
  /\ i = 1
  /\ short_event_names = <<>>
  /\ race = <<>>
  /\ sprint = NoSprint
  /\ standings = <<>>
  /\ loads = <<>>
  /\ exc = None
  /\ logged = <<>>
  /\ circuits_data = Unset
  /\ races_data = Unset
  /\ season_summary = Unset

\* app.layout: the page as served, before any of its callbacks has run.
Layout ==
  /\ world_map = Unset
  /\ map_call = Unset
  /\ click_data = Unset
  /\ selected_circuit_data = Unset
  /\ circuit_info_panel = Unset
  /\ detailed_section = [display |-> "none"]
  /\ track_loads = <<>>
  /\ track_figures = Unset
  /\ active_tab = "pole"
  /\ results_loads = <<>>
  /\ tab_content = Unset
  /\ qualifying_data = <<>>
  /\ qualifying_chart = Unset

Init ==
  /\ InitCall
  /\ selector = selected_year
  /\ requests = <<>>
  /\ shown = NothingShown
  /\ Layout
  /\ pending = {}

\* Except returning the figure of the events accumulated before the exception.
ExceptKeepsPartial(e) ==
  /\ exc' = e
  /\ \E text \in ErrorTexts(e) : logged' = Append(logged, text)
  /\ circuits_data' = EmptyList
  /\ races_data' = EmptyList
  /\ season_summary' =
       IF Len(standings) = 0 THEN EmptyList
       ELSE LET done == SelectSeq(schedule, LAMBDA ev :
                          \E k \in DOMAIN standings :
                            standings[k].RoundNumber = ev.RoundNumber)
            IN Figure(standings, done, short_event_names,
                      CHOOSE order \in SortedIndexes(standings) : TRUE)
  /\ pc' = "done"

\* Except returning what had been loaded before the exception.
ExceptKeepsLoaded(e) ==
  /\ exc' = e
  /\ \E text \in ErrorTexts(e) : logged' = Append(logged, text)
  /\ circuits_data' = Records(circuits_df)
  /\ races_data' = Records(races_df)
  /\ season_summary' = EmptyList
  /\ pc' = "done"

\* load_initial_data, lines 238-240: log the error, return [], [], [].
Except(e) ==
  /\ exc' = e
  /\ \E text \in ErrorTexts(e) : logged' = Append(logged, text)
  /\ circuits_data' = EmptyList
  /\ races_data' = EmptyList
  /\ season_summary' = EmptyList
  /\ pc' = "done"

\* load_initial_data, line 237: the three outputs of a run that did not raise.
Return(fig) ==
  /\ circuits_data' = Records(circuits_df)
  /\ races_data' = Records(races_df)
  /\ season_summary' = fig
  /\ pc' = "done"
  /\ UNCHANGED <<exc, logged>>

\* loader.load_circuits(selected_year)
LoadCircuits ==
  /\ pc = "load_circuits"
  /\ \/ /\ circuits_df' = CircuitsOf(selected_year)
        /\ pc' = "load_races"
        /\ UNCHANGED <<exc, logged, circuits_data, races_data, season_summary>>
     \/ /\ Except(ProviderError)
        /\ UNCHANGED circuits_df
  /\ UNCHANGED <<browser, called, selected_year>>
  /\ UNCHANGED <<races_df, provided, now, schedule, i,
                 short_event_names, race, sprint, standings, loads>>

\* loader.load_races_by_year(selected_year)
LoadRaces ==
  /\ pc = "load_races"
  /\ \/ /\ races_df' = RacesOf(selected_year)
        /\ pc' = "get_schedule"
        /\ UNCHANGED <<exc, logged, circuits_data, races_data, season_summary>>
     \/ /\ Except(ProviderError)
        /\ UNCHANGED races_df
  /\ UNCHANGED <<browser, called, selected_year>>
  /\ UNCHANGED <<circuits_df, provided, now, schedule, i,
                 short_event_names, race, sprint, standings, loads>>

\* LoopAt leaving the loop one event early.
LoopAtStopsEarly(sched, k) == IF k >= Len(sched) THEN "build" ELSE "race"

\* Where the loop over schedule.iterrows() goes from position k.
LoopAt(sched, k) == IF k > Len(sched) THEN "build" ELSE "race"

\* create_season_summary, lines 11-19: fetch the schedule, keep the events
\* that have occurred. scheds: the schedules the provider may return.
GetEventScheduleFrom(scheds) ==
  /\ pc = "get_schedule"
  /\ \/ \E sched \in scheds : \E clock \in Clocks(sched) :
          /\ provided' = sched
          /\ now' = clock
          /\ schedule' = FilterOccurred(sched, clock)
          /\ pc' = LoopAt(schedule', 1)
          /\ UNCHANGED <<exc, logged, circuits_data, races_data, season_summary>>
     \/ /\ Except(ProviderError)
        /\ UNCHANGED <<provided, now, schedule>>
  /\ UNCHANGED <<browser, called, selected_year>>
  /\ UNCHANGED <<circuits_df, races_df, i, short_event_names,
                 race, sprint, standings, loads>>

GetEventSchedule == GetEventScheduleFrom(Schedules(selected_year))

\* LoadFailed with the load tried again instead of the exception leaving
\* the loop.
LoadFailedAndRetried(session) ==
  /\ loads' = Append(loads, LoadEntry(schedule[i], session, FALSE, <<>>))
  /\ pc' = pc
  /\ UNCHANGED <<exc, logged, circuits_data, races_data, season_summary>>

\* session.load() raises: nothing catches it inside create_season_summary,
\* it reaches the except branch of the callback.
LoadFailed(session) ==
  /\ loads' = Append(loads, LoadEntry(schedule[i], session, FALSE, <<>>))
  /\ Except(ProviderError)

\* Lines 22-27: the short name is appended, then the race session is loaded.
\* frames: the results the provider may return for a race.
LoadRaceFrom(frames) ==
  /\ pc = "race"
  /\ short_event_names' =
       Append(short_event_names, ShortEventName(schedule[i].EventName))
  /\ \/ \E frame \in frames :
          /\ race' = frame
          /\ loads' = Append(loads, LoadEntry(schedule[i], "R", TRUE, frame))
          /\ sprint' = NoSprint
          /\ pc' = IF FetchesSprint(schedule[i]) THEN "sprint" ELSE "rows"
          /\ UNCHANGED <<exc, logged, circuits_data, races_data, season_summary>>
     \/ /\ LoadFailed("R")
        /\ UNCHANGED <<race, sprint>>
  /\ UNCHANGED <<browser, called, selected_year>>
  /\ UNCHANGED <<circuits_df, races_df, provided, now, schedule,
                 i, standings>>

LoadRace == LoadRaceFrom(RaceFrames)

\* Lines 35-37: the sprint session is loaded.
LoadSprint ==
  /\ pc = "sprint"
  /\ \/ \E frame \in SprintFrames :
          /\ sprint' = Loaded(frame)
          /\ loads' = Append(loads, LoadEntry(schedule[i], "S", TRUE, frame))
          /\ pc' = "rows"
          /\ UNCHANGED <<exc, logged, circuits_data, races_data, season_summary>>
     \/ /\ LoadFailed("S")
        /\ UNCHANGED sprint
  /\ UNCHANGED <<browser, called, selected_year>>
  /\ UNCHANGED <<circuits_df, races_df, provided, now, schedule,
                 i, short_event_names, race, standings>>

\* Lines 39-66: one record per row of race.results, then the next event.
AccumulateRows ==
  /\ pc = "rows"
  /\ standings' = standings \o EventRecords(schedule[i], race, sprint)
  /\ i' = i + 1
  /\ pc' = LoopAt(schedule, i + 1)
  /\ UNCHANGED <<browser, called, selected_year>>
  /\ UNCHANGED <<circuits_df, races_df, provided, now, schedule,
                 short_event_names, race, sprint, loads, exc, logged,
                 circuits_data, races_data, season_summary>>

\* Lines 68-150 and the callback's return: the figure is built and returned,
\* or building it raises and the callback's except branch runs.
BuildFigure ==
  /\ pc = "build"
  /\ \E out \in SummaryOutcomes(standings, schedule, short_event_names) :
       IF out.kind = "raise" THEN Except(out.exc) ELSE Return(out)
  /\ UNCHANGED <<browser, called, selected_year>>
  /\ UNCHANGED <<circuits_df, races_df, provided, now, schedule,
                 i, short_event_names, race, sprint, standings, loads>>

\* StartCall with standings and short_event_names kept on season_component
\* instead of bound anew.
StartCallKeepsRecords(year) ==
  /\ selected_year' = year
  /\ pc' = "load_circuits"
  /\ circuits_df' = <<>>
  /\ races_df' = <<>>
  /\ provided' = <<>>
  /\ now' = [day |-> 0, late |-> FALSE]
  /\ schedule' = <<>>
  /\ i' = 1
  /\ race' = <<>>
  /\ sprint' = NoSprint
  /\ loads' = <<>>
  /\ exc' = None
  /\ logged' = <<>>
  /\ circuits_data' = Unset
  /\ races_data' = Unset
  /\ season_summary' = Unset
  /\ UNCHANGED <<standings, short_event_names>>

\* A call of load_initial_data and of create_season_summary begins: every
\* name the two functions use is a local, bound anew in each call.
StartCall(year) ==
  /\ selected_year' = year
  /\ pc' = "load_circuits"
  /\ circuits_df' = <<>>
  /\ races_df' = <<>>
  /\ provided' = <<>>
  /\ now' = [day |-> 0, late |-> FALSE]
  /\ schedule' = <<>>
  /\ i' = 1
  /\ short_event_names' = <<>>
  /\ race' = <<>>
  /\ sprint' = NoSprint
  /\ standings' = <<>>
  /\ loads' = <<>>
  /\ exc' = None
  /\ logged' = <<>>
  /\ circuits_data' = Unset
  /\ races_data' = Unset
  /\ season_summary' = Unset

\* The year selector changes after the call has returned: the callback is
\* fired again, on the same season_component, with the year now selected.
SelectYear ==
  /\ pc = "done"
  /\ \E year \in Seasons \ {selected_year} :
       /\ selector' = year
       /\ StartCall(year)
  /\ called' = TRUE
  /\ UNCHANGED <<requests, shown, page>>

Next ==
  \/ LoadCircuits
  \/ LoadRaces
  \/ GetEventSchedule
  \/ LoadRace
  \/ LoadSprint
  \/ AccumulateRows
  \/ BuildFigure

\* One call of load_initial_data, for the year the selector holds.
Spec == Init /\ [][Next]_vars

\* Call after call, each for the year then selected.
NextSeasons ==
  \/ Next
  \/ SelectYear

SpecSeasons == Init /\ [][NextSeasons]_vars

\* The orders in which the rows of a frame can stand.
RowOrders(n) ==
  {perm \in [1..n -> 1..n] : \A a, b \in 1..n : a # b => perm[a] # perm[b]}

\* A season's schedule with its rows in whatever order the provider has
\* them: the code iterates the frame as it comes and never sorts it.
SchedulesInAnyRowOrder(season) ==
  UNION {{[p \in 1..Len(sched) |-> sched[perm[p]]] :
            perm \in RowOrders(Len(sched))} : sched \in Schedules(season)}

\* GetEventSchedule for a provider that does not order the rows by round.
GetEventScheduleInAnyRowOrder ==
  GetEventScheduleFrom(SchedulesInAnyRowOrder(selected_year))

NextInAnyRowOrder ==
  \/ LoadCircuits
  \/ LoadRaces
  \/ GetEventScheduleInAnyRowOrder
  \/ LoadRace
  \/ LoadSprint
  \/ AccumulateRows
  \/ BuildFigure

\* One call, the schedule's rows in any order.
SpecInAnyRowOrder == Init /\ [][NextInAnyRowOrder]_vars

\* Any event name of up to MaxNameLen words and blanks; "Grand Prix" may
\* stand anywhere in it, any number of times.
NameTokens == {GP, " ", "Monaco"}
AnyEventNames == UNION {[1..n -> NameTokens] : n \in 0..MaxNameLen}

\* One-event schedules whose event carries any name.
SchedulesOfAnyName(season) ==
  {<<[Event(season, 1, sprintWeekend) EXCEPT !.EventName = name]>> :
     name \in AnyEventNames, sprintWeekend \in BOOLEAN}

\* GetEventSchedule for a provider whose events carry any name.
GetEventScheduleOfAnyName ==
  GetEventScheduleFrom(SchedulesOfAnyName(selected_year))

NextOfAnyName ==
  \/ LoadCircuits
  \/ LoadRaces
  \/ GetEventScheduleOfAnyName
  \/ LoadRace
  \/ LoadSprint
  \/ AccumulateRows
  \/ BuildFigure

\* One call, for a season of one event of any name.
SpecOfAnyName == Init /\ [][NextOfAnyName]_vars

\* Race results in which an abbreviation may stand on more than one row.
RaceFramesWithRepeats ==
  UNION {{Frame(ds, ps) :
            ps \in {q \in [1..Len(ds) -> RacePointValues] :
                      \A a, b \in DOMAIN q : a < b => q[a] > q[b]}} :
           ds \in UNION {[1..n -> Drivers] : n \in 0..Cardinality(Drivers)}}

\* LoadRace for a provider whose results may repeat an abbreviation.
LoadRaceWithRepeats == LoadRaceFrom(RaceFramesWithRepeats)

NextWithRepeats ==
  \/ LoadCircuits
  \/ LoadRaces
  \/ GetEventSchedule
  \/ LoadRaceWithRepeats
  \/ LoadSprint
  \/ AccumulateRows
  \/ BuildFigure

\* One call, the race results possibly repeating an abbreviation.
SpecWithRepeats == Init /\ [][NextWithRepeats]_vars

\* ------------------------------------------------- the browser and its calls
\* Calls of load_initial_data running side by side, as the server runs the
\* requests of one page. A call is followed through its try block; the
\* season summary it builds is told apart by the season it was built for.
SummaryOf(season) == [kind |-> "figure", season |-> season]

Request(year) == [year |-> year, at |-> "load_circuits", returns |-> NothingShown]

\* The page loads: the callback is fired with the selector's initial value.
InitBrowser ==
  /\ InitCall
  /\ selector = selected_year
  /\ requests = <<Request(selector)>>
  /\ shown = NothingShown
  /\ Layout
  /\ pending = {}

\* The user picks another year while earlier calls may still run.
ChangeYear ==
  /\ Len(requests) < MaxRequests
  /\ \E year \in Seasons \ {selector} :
       /\ selector' = year
       /\ requests' = Append(requests, Request(year))
  /\ UNCHANGED <<shown, call, page>>

\* Lines 225-237 of one call: the two loads, the summary, the return value.
RequestSucceeds(r) ==
  /\ requests[r].at \in {"load_circuits", "load_races", "summary"}
  /\ LET req == requests[r]
     IN requests' =
          [requests EXCEPT ![r] =
             IF req.at = "load_circuits" THEN [req EXCEPT !.at = "load_races"]
             ELSE IF req.at = "load_races" THEN [req EXCEPT !.at = "summary"]
             ELSE [req EXCEPT !.at = "return",
                              !.returns =
                                Outputs(Records(CircuitsOf(req.year)),
                                        Records(RacesOf(req.year)),
                                        SummaryOf(req.year))]]
  /\ UNCHANGED <<selector, shown, call, page>>

\* Lines 238-240 of one call: any of the three raises, the call returns
\* [], [], [].
RequestRaises(r) ==
  /\ requests[r].at \in {"load_circuits", "load_races", "summary"}
  /\ requests' =
       [requests EXCEPT ![r] =
          [@ EXCEPT !.at = "return",
                    !.returns = Outputs(EmptyList, EmptyList, EmptyList)]]
  /\ UNCHANGED <<selector, shown, call, page>>

\* The response of a call reaches the page: its three values are written to
\* the outputs. Neither the callback nor its return value carries a request
\* token or a generation counter that would tell a stale response.
Respond(r) ==
  /\ requests[r].at = "return"
  /\ shown' = requests[r].returns
  /\ requests' = [requests EXCEPT ![r].at = "done"]
  /\ UNCHANGED <<selector, call, page>>

NextBrowser ==
  \/ ChangeYear
  \/ \E r \in DOMAIN requests : RequestSucceeds(r)
  \/ \E r \in DOMAIN requests : RequestRaises(r)
  \/ \E r \in DOMAIN requests : Respond(r)

SpecBrowser == InitBrowser /\ [][NextBrowser]_vars

\* ---------------------------------------------------- the page's callbacks
\* No call of load_initial_data is running.
IdleCall ==
  /\ InitCall
  /\ selector = selected_year
  /\ requests = <<>>

\* Circuits the provider knows; the last one is in no table of the model.
CircuitIds == {"c1", "c2"}
UnknownCircuit == "c9"

\* Ergast circuit tables of a season: each circuit once.
CircuitTables(season) ==
  {[k \in 1..Len(ids) |-> [season |-> season, circuitId |-> ids[k]]] :
     ids \in {<<"c1">>, <<"c2">>, <<"c1", "c2">>, <<"c2", "c1">>}}

\* Ergast race schedules of a season: rounds 1..n, each at some circuit.
RaceTables(season) ==
  UNION {{[k \in 1..n |-> [season |-> season, round |-> k, circuitId |-> at[k]]] :
            at \in [1..n -> CircuitIds]} : n \in 1..MaxRaces}

\* What a dcc.Store can hold of a table: None, [] or its records.
Stores(tables) == {Unset, EmptyList} \cup {Records(t) : t \in tables}

\* Python's `not data` for a store's value: None and [] are falsy.
Falsy(data) == data.kind = "None" \/ Len(data.records) = 0

\* customdata of a marker of the map: circuitId, circuitName, country.
Customdata(id) == <<id, "circuitName", "country">>

\* clickData of the map: None, or a dict whose 'points' list holds the
\* customdata of the clicked marker. Beside the clicks the map produces, the
\* malformed ones: no point, customdata missing or cut short, an unknown id.
Click(points) == [kind |-> "dict", points |-> points]
Clicks ==
  {Unset, Click(<<>>)} \cup
  {Click(<<SubSeq(Customdata(id), 1, n)>>) :
     id \in CircuitIds \cup {UnknownCircuit}, n \in 0..3}

\* {} and the dict handle_circuit_selection returns for a circuit.
EmptyDict == [kind |-> "dict"]
Selection(circuit_info, races_info, circuit_id) ==
  [kind |-> "dict", circuit_info |-> circuit_info,
   races_info |-> races_info, circuit_id |-> circuit_id]

\* create_empty_circuit_info() and create_circuit_info_panel(...)
create_empty_circuit_info == [kind |-> "placeholder"]
create_circuit_info_panel(circuit_info, races_info) ==
  [kind |-> "panel", circuit_info |-> circuit_info, races_info |-> races_info]

\* The three values handle_circuit_selection returns.
Selected(data, panel, display) ==
  [selected_circuit_data |-> data, circuit_info_panel |-> panel,
   detailed_section |-> [display |-> display]]
NoSelection == Selected(EmptyDict, create_empty_circuit_info, "none")

\* handle_circuit_selection without the check of circuit_row.empty.
handle_circuit_selection_of_any_id(click, circuits, races) ==
  IF click.kind = "None" \/ Falsy(circuits) THEN NoSelection
  ELSE IF Len(click.points) = 0 THEN NoSelection
  ELSE LET custom_data == click.points[1]
       IN IF Len(custom_data) < 3 THEN NoSelection
          ELSE LET circuit_id == custom_data[1]
                   circuit_row == SelectSeq(circuits.records,
                                    LAMBDA c : c.circuitId = circuit_id)
                   circuit_info == IF Len(circuit_row) = 0 THEN Unset
                                   ELSE circuit_row[1]
                   races_info == IF Falsy(races) THEN <<>>
                                 ELSE SelectSeq(races.records,
                                        LAMBDA r : r.circuitId = circuit_id)
               IN Selected(Selection(circuit_info, races_info, circuit_id),
                           create_circuit_info_panel(circuit_info, races_info),
                           "block")

\* handle_circuit_selection(click_data, circuits_data, races_data), lines
\* 272-300. click_data['points'][0] of a click without points raises, which
\* the except branch turns into the same three values as no click.
handle_circuit_selection(click, circuits, races) ==
  IF click.kind = "None" \/ Falsy(circuits) THEN NoSelection
  ELSE IF Len(click.points) = 0 THEN NoSelection
  ELSE LET custom_data == click.points[1]
       IN IF Len(custom_data) < 3 THEN NoSelection
          ELSE LET circuit_id == custom_data[1]
                   circuit_row == SelectSeq(circuits.records,
                                    LAMBDA c : c.circuitId = circuit_id)
                   races_info == IF Falsy(races) THEN <<>>
                                 ELSE SelectSeq(races.records,
                                        LAMBDA r : r.circuitId = circuit_id)
               IN IF Len(circuit_row) = 0 THEN NoSelection
                  ELSE Selected(
                         Selection(circuit_row[1], races_info, circuit_id),
                         create_circuit_info_panel(circuit_row[1], races_info),
                         "block")

\* The callback of world-map.clickData runs, with the two stores as State;
\* its first output is the Input of the two callbacks below it.
HandleCircuitSelection ==
  /\ "handle_circuit_selection" \in pending
  /\ LET returned == handle_circuit_selection(click_data, shown.circuits_data,
                                              shown.races_data)
     IN /\ selected_circuit_data' = returned.selected_circuit_data
        /\ circuit_info_panel' = returned.circuit_info_panel
        /\ detailed_section' = returned.detailed_section
  /\ pending' = (pending \ {"handle_circuit_selection"}) \cup
                  {"update_3d_visualization", "update_results_content"}
  /\ UNCHANGED <<call, selector, requests, shown>>
  /\ UNCHANGED <<world_map, map_call, click_data, track_loads, track_figures,
                 active_tab, results_loads, tab_content, qualifying_data,
                 qualifying_chart>>

\* selected_year = None, the default of create_circuits_map.
NoYear == 0

\* _create_empty_map() and the map of one Scattermapbox trace.
EmptyMap == [kind |-> "empty_map"]
CircuitsMap(circuits_display, marker_color, marker_size, title) ==
  [kind |-> "map",
   customdata |-> [k \in DOMAIN circuits_display |->
                     Customdata(circuits_display[k].circuitId)],
   marker |-> [color |-> marker_color, size |-> marker_size],
   title |-> title]

\* The arguments of one call of create_circuits_map; races_df is None (Unset)
\* or a frame.
MapCall(circuits, races, year) ==
  [kind |-> "call", circuits_df |-> circuits, races_df |-> races,
   selected_year |-> year]

\* create_circuits_map showing every circuit, whatever the schedule.
create_circuits_map_unfiltered(circuits, races, year) ==
  IF Len(circuits) = 0 THEN EmptyMap
  ELSE IF races.kind # "None" /\ Len(races.records) > 0 /\ year # NoYear
       THEN CircuitsMap(circuits, "primary", 12, year)
       ELSE CircuitsMap(circuits, "text_light", 8, year)

\* WorldMapComponent.create_circuits_map(circuits_df, races_df,
\* selected_year), lines 35-51 and 66-80.
create_circuits_map(circuits, races, year) ==
  IF Len(circuits) = 0 THEN EmptyMap
  ELSE IF races.kind # "None" /\ Len(races.records) > 0 /\ year # NoYear
       THEN LET active_circuits ==
                  {races.records[k].circuitId : k \in DOMAIN races.records}
            IN CircuitsMap(
                 SelectSeq(circuits, LAMBDA c : c.circuitId \in active_circuits),
                 "primary", 12, year)
       ELSE CircuitsMap(circuits, "text_light", 8, year)

\* The call update_world_map makes of create_circuits_map, lines 254-257;
\* none when circuits-data is None or [].
update_world_map_call(circuits, races, year) ==
  IF Falsy(circuits) THEN Unset
  ELSE MapCall(circuits.records,
               IF Falsy(races) THEN Records(<<>>) ELSE races, year)

\* update_world_map(circuits_data, races_data, selected_year), lines 249-260.
update_world_map(circuits, races, year) ==
  LET c == update_world_map_call(circuits, races, year)
  IN IF c = Unset THEN EmptyMap
     ELSE create_circuits_map(c.circuits_df, c.races_df, c.selected_year)

\* The callback of circuits-data, races-data and the year selector runs.
\* No callback has the figure of the map as its Input.
UpdateWorldMap ==
  /\ "update_world_map" \in pending
  /\ map_call' = update_world_map_call(shown.circuits_data, shown.races_data,
                                       selector)
  /\ world_map' = update_world_map(shown.circuits_data, shown.races_data,
                                   selector)
  /\ pending' = pending \ {"update_world_map"}
  /\ UNCHANGED <<call, selector, requests, shown>>
  /\ UNCHANGED <<click_data, selected_circuit_data, circuit_info_panel,
                 detailed_section, track_loads, track_figures, active_tab,
                 results_loads, tab_content, qualifying_data, qualifying_chart>>

\* create_circuits_map called on the arguments map_call holds.
CreateCircuitsMap ==
  /\ "create_circuits_map" \in pending
  /\ world_map' = create_circuits_map(map_call.circuits_df, map_call.races_df,
                                      map_call.selected_year)
  /\ pending' = pending \ {"create_circuits_map"}
  /\ UNCHANGED <<call, selector, requests, shown>>
  /\ UNCHANGED <<map_call, click_data, selected_circuit_data,
                 circuit_info_panel, detailed_section, track_loads,
                 track_figures, active_tab, results_loads, tab_content,
                 qualifying_data, qualifying_chart>>

\* Arguments of create_circuits_map: any circuit frame, the empty one
\* included; races_df None, empty or a schedule; a year or None.
MapCalls(season) ==
  {MapCall(c, r, y) :
     c \in CircuitTables(season) \cup {<<>>},
     r \in {Unset, Records(<<>>)} \cup {Records(t) : t \in RaceTables(season)},
     y \in {season, NoYear}}

\* update_world_map on any content of the two stores, or create_circuits_map
\* on any arguments.
InitWorldMap ==
  /\ IdleCall
  /\ \/ /\ pending = {"update_world_map"}
        /\ shown \in {Outputs(c, r, Unset) :
                       c \in Stores(CircuitTables(selector)),
                       r \in Stores(RaceTables(selector))}
        /\ map_call = Unset
     \/ /\ pending = {"create_circuits_map"}
        /\ shown = NothingShown
        /\ map_call \in MapCalls(selector)
  /\ world_map = Unset
  /\ click_data = Unset
  /\ selected_circuit_data = Unset
  /\ circuit_info_panel = Unset
  /\ detailed_section = [display |-> "none"]
  /\ track_loads = <<>>
  /\ track_figures = Unset
  /\ active_tab = "pole"
  /\ results_loads = <<>>
  /\ tab_content = Unset
  /\ qualifying_data = <<>>
  /\ qualifying_chart = Unset

NextWorldMap ==
  \/ UpdateWorldMap
  \/ CreateCircuitsMap

SpecWorldMap == InitWorldMap /\ [][NextWorldMap]_vars

\* handle_circuit_selection on any click and any content of the two stores.
InitSelection ==
  /\ IdleCall
  /\ shown \in {Outputs(c, r, Unset) : c \in Stores(CircuitTables(selector)),
                                       r \in Stores(RaceTables(selector))}
  /\ click_data \in Clicks
  /\ pending = {"handle_circuit_selection"}
  /\ world_map = Unset
  /\ map_call = Unset
  /\ selected_circuit_data = Unset
  /\ circuit_info_panel = Unset
  /\ detailed_section = [display |-> "none"]
  /\ track_loads = <<>>
  /\ track_figures = Unset
  /\ active_tab = "pole"
  /\ results_loads = <<>>
  /\ tab_content = Unset
  /\ qualifying_data = <<>>
  /\ qualifying_chart = Unset

NextSelection == HandleCircuitSelection

SpecSelection == InitSelection /\ [][NextSelection]_vars

\* go.Figure() and the figures of the three builders.
EmptyFigure == [kind |-> "figure", traces |-> 0]
Track3d(circuit_id) == [kind |-> "track_3d", circuit_id |-> circuit_id]
ElevationProfile(circuit_id) == [kind |-> "elevation", circuit_id |-> circuit_id]
EmptyChart == [kind |-> "empty_chart"]
PositionsLines(season, round) ==
  [kind |-> "positions", season |-> season, round |-> round]

\* One load asked of the provider by a callback of the page: the loader's
\* method, the season and the event (a round, or a circuit id) it names,
\* and whether the provider raised.
PageLoad(method, season, event, raised) ==
  [method |-> method, season |-> season, event |-> event, raised |-> raised]

\* What the provider does with the session loads of update_3d_visualization:
\* the first raises, the second raises, the race has no laps, or it has.
TrackOutcomes == {"elevation_raises", "positions_raise", "no_laps", "laps"}

\* The three figures and the loads of one call of update_3d_visualization.
TrackReturn(fig_3d, fig_elev, fig_positions, asked) ==
  [figures |-> <<fig_3d, fig_elev, fig_positions>>, loads |-> asked]
NoTrack(asked) == TrackReturn(EmptyFigure, EmptyFigure, EmptyFigure, asked)

\* The selection carries the key and, for races_info, a first record.
HasKey(data, key) == data.kind = "dict" /\ key \in DOMAIN data
HasFirstRace(data) ==
  /\ HasKey(data, "races_info")
  /\ Len(data.races_info) > 0

\* update_3d_visualization returning the track figures it had built when
\* the load of the lap positions raises.
update_3d_visualization_keeping_track(data, outcome) ==
  IF ~HasKey(data, "circuit_id") THEN NoTrack(<<>>)
  ELSE IF ~HasFirstRace(data) \/ ~HasKey(data, "circuit_info")
       THEN NoTrack(<<>>)
  ELSE LET season == data.races_info[1].season
           round == data.races_info[1].round
           elevation == PageLoad("load_track_elevation_data", season,
                                 data.circuit_id,
                                 outcome = "elevation_raises")
           positions == PageLoad("load_race_positions_laps", season, round,
                                 outcome = "positions_raise")
       IN IF outcome = "elevation_raises" THEN NoTrack(<<elevation>>)
          ELSE TrackReturn(Track3d(data.circuit_id),
                           ElevationProfile(data.circuit_id),
                           IF outcome = "positions_raise" THEN EmptyFigure
                           ELSE IF outcome = "no_laps" THEN EmptyChart
                           ELSE PositionsLines(season, round),
                           <<elevation, positions>>)

\* update_3d_visualization(selected_circuit_data), lines 310-326, with
\* load_track_elevation_data (data_loader.py 40-97) and
\* load_race_positions_laps (23-34). A selection without races_info[0] or
\* circuit_info raises before a session is loaded; every exception ends in
\* the except branch, which returns three empty figures.
update_3d_visualization(data, outcome) ==
  IF ~HasKey(data, "circuit_id") THEN NoTrack(<<>>)
  ELSE IF ~HasFirstRace(data) \/ ~HasKey(data, "circuit_info")
       THEN NoTrack(<<>>)
  ELSE LET season == data.races_info[1].season
           round == data.races_info[1].round
           elevation == PageLoad("load_track_elevation_data", season,
                                 data.circuit_id,
                                 outcome = "elevation_raises")
           positions == PageLoad("load_race_positions_laps", season, round,
                                 outcome = "positions_raise")
       IN IF outcome = "elevation_raises" THEN NoTrack(<<elevation>>)
          ELSE IF outcome = "positions_raise"
               THEN NoTrack(<<elevation, positions>>)
          ELSE TrackReturn(Track3d(data.circuit_id),
                           ElevationProfile(data.circuit_id),
                           IF outcome = "no_laps" THEN EmptyChart
                           ELSE PositionsLines(season, round),
                           <<elevation, positions>>)

\* The callback of selected-circuit-data that draws the track runs.
Update3dVisualization ==
  /\ "update_3d_visualization" \in pending
  /\ \E outcome \in TrackOutcomes :
       LET returned == update_3d_visualization(selected_circuit_data, outcome)
       IN /\ track_figures' = returned.figures
          /\ track_loads' = returned.loads
  /\ pending' = pending \ {"update_3d_visualization"}
  /\ UNCHANGED <<call, selector, requests, shown>>
  /\ UNCHANGED <<world_map, map_call, click_data, selected_circuit_data,
                 circuit_info_panel, detailed_section, active_tab,
                 results_loads, tab_content, qualifying_data,
                 qualifying_chart>>

\* What selected-circuit-data can hold: None, {}, the selection of a circuit
\* with any of its races, and such a selection short of one key.
RacesAt(id, season) ==
  {<<>>} \cup
  {SelectSeq(t, LAMBDA r : r.circuitId = id) : t \in RaceTables(season)}
Selections(season) ==
  UNION {{Selection([season |-> season, circuitId |-> id], races_info, id) :
            races_info \in RacesAt(id, season)} : id \in CircuitIds}
WithoutKey(data, key) == [k \in DOMAIN data \ {key} |-> data[k]]
SelectedCircuitData(season) ==
  {Unset, EmptyDict} \cup Selections(season) \cup
  {WithoutKey(s, key) : s \in Selections(season),
                        key \in {"circuit_id", "races_info", "circuit_info"}}

\* update_3d_visualization on any content of selected-circuit-data.
InitTrack ==
  /\ IdleCall
  /\ shown = NothingShown
  /\ selected_circuit_data \in SelectedCircuitData(selector)
  /\ pending = {"update_3d_visualization"}
  /\ world_map = Unset
  /\ map_call = Unset
  /\ click_data = Unset
  /\ circuit_info_panel = Unset
  /\ detailed_section = [display |-> "none"]
  /\ track_loads = <<>>
  /\ track_figures = Unset
  /\ active_tab = "pole"
  /\ results_loads = <<>>
  /\ tab_content = Unset
  /\ qualifying_data = <<>>
  /\ qualifying_chart = Unset

NextTrack == Update3dVisualization

SpecTrack == InitTrack /\ [][NextTrack]_vars

\* The tabs of results-tabs, and an id none of them has.
Tabs == {"pole", "results", "qualifying", "drivers"}
OtherTab == "other"

\* html.Div(text), and what the four builders of RaceResultsComponent
\* return for the results of one race.
Div(text) == [kind |-> "div", text |-> text]
TabContent(builder, season, round) ==
  [kind |-> builder, season |-> season, round |-> round]

\* What the provider does with the two Ergast requests of
\* update_results_content: the first raises, the second raises, both answer.
ResultsOutcomes == {"results_raise", "qualifying_raises", "loaded"}

\* The children and the loads of one call of update_results_content.
ResultsReturn(children, asked) == [children |-> children, loads |-> asked]

\* update_results_content showing the last race of the circuit, not the first.
update_results_content_of_last_race(tab, data, year, outcome) ==
  IF ~HasKey(data, "races_info")
  THEN ResultsReturn(Div("Selecciona un circuito para ver los resultados"), <<>>)
  ELSE IF Len(data.races_info) = 0
  THEN ResultsReturn(
         Div("No hay datos de carreras disponibles para este circuito"), <<>>)
  ELSE LET round_num == data.races_info[Len(data.races_info)].round
           race_results == PageLoad("load_race_results", year, round_num,
                                    outcome = "results_raise")
           qualifying == PageLoad("get_qualifying_results", year, round_num,
                                  outcome = "qualifying_raises")
       IN IF outcome = "results_raise"
          THEN ResultsReturn(Div("Error cargando datos de resultados"),
                             <<race_results>>)
          ELSE IF outcome = "qualifying_raises"
          THEN ResultsReturn(Div("Error cargando datos de resultados"),
                             <<race_results, qualifying>>)
          ELSE ResultsReturn(
                 IF tab = "pole"
                 THEN TabContent("create_pole_position_card", year, round_num)
                 ELSE IF tab = "results"
                 THEN TabContent("create_results_table", year, round_num)
                 ELSE IF tab = "qualifying"
                 THEN TabContent("create_qualifying_chart", year, round_num)
                 ELSE IF tab = "drivers"
                 THEN TabContent("create_drivers_grid", year, round_num)
                 ELSE Div("Contenido no disponible"),
                 <<race_results, qualifying>>)

\* update_results_content(active_tab, selected_circuit_data, selected_year),
\* lines 336-363. Both Ergast requests are made before the tab is looked at;
\* an exception of either ends in the except branch.
update_results_content(tab, data, year, outcome) ==
  IF ~HasKey(data, "races_info")
  THEN ResultsReturn(Div("Selecciona un circuito para ver los resultados"), <<>>)
  ELSE IF Len(data.races_info) = 0
  THEN ResultsReturn(
         Div("No hay datos de carreras disponibles para este circuito"), <<>>)
  ELSE LET round_num == data.races_info[1].round
           race_results == PageLoad("load_race_results", year, round_num,
                                    outcome = "results_raise")
           qualifying == PageLoad("get_qualifying_results", year, round_num,
                                  outcome = "qualifying_raises")
       IN IF outcome = "results_raise"
          THEN ResultsReturn(Div("Error cargando datos de resultados"),
                             <<race_results>>)
          ELSE IF outcome = "qualifying_raises"
          THEN ResultsReturn(Div("Error cargando datos de resultados"),
                             <<race_results, qualifying>>)
          ELSE ResultsReturn(
                 IF tab = "pole"
                 THEN TabContent("create_pole_position_card", year, round_num)
                 ELSE IF tab = "results"
                 THEN TabContent("create_results_table", year, round_num)
                 ELSE IF tab = "qualifying"
                 THEN TabContent("create_qualifying_chart", year, round_num)
                 ELSE IF tab = "drivers"
                 THEN TabContent("create_drivers_grid", year, round_num)
                 ELSE Div("Contenido no disponible"),
                 <<race_results, qualifying>>)

\* The callback of results-tabs.active_tab and selected-circuit-data runs,
\* with the year selector as State.
UpdateResultsContent ==
  /\ "update_results_content" \in pending
  /\ \E outcome \in ResultsOutcomes :
       LET returned == update_results_content(active_tab, selected_circuit_data,
                                              selector, outcome)
       IN /\ tab_content' = returned.children
          /\ results_loads' = returned.loads
  /\ pending' = pending \ {"update_results_content"}
  /\ UNCHANGED <<call, selector, requests, shown>>
  /\ UNCHANGED <<world_map, map_call, click_data, selected_circuit_data,
                 circuit_info_panel, detailed_section, track_loads,
                 track_figures, active_tab, qualifying_data, qualifying_chart>>

\* update_results_content on any tab id, any content of
\* selected-circuit-data and any year of the selector.
InitResults ==
  /\ IdleCall
  /\ shown = NothingShown
  /\ selected_circuit_data \in UNION {SelectedCircuitData(s) : s \in Seasons}
  /\ active_tab \in Tabs \cup {OtherTab}
  /\ pending = {"update_results_content"}
  /\ world_map = Unset
  /\ map_call = Unset
  /\ click_data = Unset
  /\ circuit_info_panel = Unset
  /\ detailed_section = [display |-> "none"]
  /\ track_loads = <<>>
  /\ track_figures = Unset
  /\ results_loads = <<>>
  /\ tab_content = Unset
  /\ qualifying_data = <<>>
  /\ qualifying_chart = Unset

NextResults == UpdateResultsContent

SpecResults == InitResults /\ [][NextResults]_vars

\* ------------------------------------------------------------ the whole page
\* The callbacks of the page chained as Dash chains them: a callback runs
\* when one of its Inputs has changed, and what it writes to an Output makes
\* the callbacks run that have this Output as an Input. A State is read when
\* the callback runs and makes nothing run. load_initial_data is taken as
\* one step here; the user acts on a page whose callbacks have all returned.
AllCallbacks ==
  {"load_initial_data", "update_world_map", "handle_circuit_selection",
   "update_3d_visualization", "update_results_content"}

\* The page is served: every callback is fired once, on the layout's values.
InitPage ==
  /\ IdleCall
  /\ shown = NothingShown
  /\ Layout
  /\ pending = AllCallbacks

\* load_initial_data(selected_year), lines 225-240, for the year the
\* selector holds: the season's tables and summary, or [], [], [] when a
\* load raised. Its stores are Inputs of update_world_map.
LoadInitialData ==
  /\ "load_initial_data" \in pending
  /\ shown' \in {Outputs(Records(CircuitsOf(selector)),
                         Records(RacesOf(selector)), SummaryOf(selector)),
                 Outputs(EmptyList, EmptyList, EmptyList)}
  /\ pending' = (pending \ {"load_initial_data"}) \cup {"update_world_map"}
  /\ UNCHANGED <<call, selector, requests>>
  /\ UNCHANGED <<world_map, map_call, click_data, selected_circuit_data,
                 circuit_info_panel, detailed_section, track_loads,
                 track_figures, active_tab, results_loads, tab_content,
                 qualifying_data, qualifying_chart>>

\* The user picks another year: year-selector.value is an Input of
\* load_initial_data and of update_world_map, and a State of
\* update_results_content.
PickYear ==
  /\ pending = {}
  /\ \E year \in Seasons \ {selector} : selector' = year
  /\ pending' = {"load_initial_data", "update_world_map"}
  /\ UNCHANGED <<call, requests, shown>>
  /\ UNCHANGED <<world_map, map_call, click_data, selected_circuit_data,
                 circuit_info_panel, detailed_section, track_loads,
                 track_figures, active_tab, results_loads, tab_content,
                 qualifying_data, qualifying_chart>>

\* The user clicks a marker of the map: world-map.clickData, the Input of
\* handle_circuit_selection, takes the marker's customdata.
ClickMap ==
  /\ pending = {}
  /\ world_map.kind = "map"
  /\ \E k \in DOMAIN world_map.customdata :
       click_data' = Click(<<world_map.customdata[k]>>)
  /\ pending' = {"handle_circuit_selection"}
  /\ UNCHANGED <<call, selector, requests, shown>>
  /\ UNCHANGED <<world_map, map_call, selected_circuit_data,
                 circuit_info_panel, detailed_section, track_loads,
                 track_figures, active_tab, results_loads, tab_content,
                 qualifying_data, qualifying_chart>>

\* The user opens another tab: results-tabs.active_tab is an Input of
\* update_results_content.
SwitchTab ==
  /\ pending = {}
  /\ \E tab \in Tabs \ {active_tab} : active_tab' = tab
  /\ pending' = {"update_results_content"}
  /\ UNCHANGED <<call, selector, requests, shown>>
  /\ UNCHANGED <<world_map, map_call, click_data, selected_circuit_data,
                 circuit_info_panel, detailed_section, track_loads,
                 track_figures, results_loads, tab_content, qualifying_data,
                 qualifying_chart>>

NextPage ==
  \/ LoadInitialData
  \/ UpdateWorldMap
  \/ HandleCircuitSelection
  \/ Update3dVisualization
  \/ UpdateResultsContent
  \/ PickYear
  \/ ClickMap
  \/ SwitchTab

SpecPage == InitPage /\ [][NextPage]_vars

\* ------------------------------------------------------ the qualifying chart
\* Lap time of the driver classified k-th in a segment he set a time in, in
\* seconds; NoTime is what total_seconds() of NaT compares like: not > 0.
NoTime == 0
LapTime(k, segment) == 100 - (10 * segment) + k

\* One row of Ergast's qualifying results: the first ten have a time in Q1,
\* Q2 and Q3, the next five in Q1 and Q2, the others in Q1.
QualifyingRow(k) ==
  [position |-> k, givenName |-> "Driver", familyName |-> k,
   Q1 |-> LapTime(k, 1),
   Q2 |-> IF k <= 15 THEN LapTime(k, 2) ELSE NoTime,
   Q3 |-> IF k <= 10 THEN LapTime(k, 3) ELSE NoTime]

\* The results of n drivers; in `out`, drivers who set no time in a segment
\* (did not run, or had every lap deleted).
QualifyingFrame(n, out) ==
  [k \in 1..n |->
     LET row == QualifyingRow(k)
     IN [row EXCEPT !.Q1 = IF <<k, "Q1">> \in out THEN NoTime ELSE @,
                    !.Q2 = IF <<k, "Q2">> \in out THEN NoTime ELSE @,
                    !.Q3 = IF <<k, "Q3">> \in out THEN NoTime ELSE @]]

\* Qualifying results of up to MaxQualifiers drivers, at most one of them
\* without a time in one segment; the empty frame is among them.
QualifyingFrames ==
  UNION {{QualifyingFrame(n, {})} \cup
         {QualifyingFrame(n, {<<k, q>>}) : k \in 1..n, q \in {"Q1", "Q2", "Q3"}} :
           n \in 0..MaxQualifiers}

\* f"{givenName} {familyName}"
DriverName(row) == <<row.givenName, row.familyName>>

\* _seconds_to_time(seconds), lines 422-433: minutes and seconds.
SecondsToTime(seconds) ==
  IF seconds <= 0 THEN NA
  ELSE [minutes |-> seconds \div 60, seconds |-> seconds % 60]

\* times[a:b] and drivers[a:b] of Python, b past the end allowed.
Slice(list, a, b) ==
  IF a >= Len(list) THEN <<>>
  ELSE SubSeq(list, a + 1, IF b < Len(list) THEN b ELSE Len(list))

\* [f(t) for t in times if t > 0]
Positive(times) == SelectSeq(times, LAMBDA t : t > 0)
TimesAsText(times) == [k \in DOMAIN times |-> SecondsToTime(times[k])]

\* go.Bar(x=..., y=..., name=..., text=...)
Bar(name, x, y, text) == [name |-> name, x |-> x, y |-> y, text |-> text]

\* create_qualifying_chart(qualifying_data), lines 222-285: the three lists
\* of times, then one bar trace per segment that has a positive time. x is
\* the slice of drivers as it stands; y and text are the slice of times
\* filtered by t > 0.
create_qualifying_chart(data) ==
  IF Len(data) = 0 THEN EmptyChart
  ELSE LET drivers == [k \in DOMAIN data |-> DriverName(data[k])]
           times_q1 == [k \in DOMAIN data |-> data[k].Q1]
           times_q2 == [k \in DOMAIN data |-> data[k].Q2]
           times_q3 == [k \in DOMAIN data |-> data[k].Q3]
           q3 == IF Len(Positive(times_q3)) > 0
                 THEN <<Bar("Q3", Slice(drivers, 0, 10),
                            Positive(Slice(times_q3, 0, 10)),
                            TimesAsText(Positive(Slice(times_q3, 0, 10))))>>
                 ELSE <<>>
           q2 == IF Len(Positive(times_q2)) > 0
                 THEN <<Bar("Q2", Slice(drivers, 10, 15),
                            Positive(Slice(times_q2, 10, 15)),
                            TimesAsText(Positive(Slice(times_q2, 10, 15))))>>
                 ELSE <<>>
           q1 == IF Len(Positive(times_q1)) > 0
                 THEN <<Bar("Q1", Slice(drivers, 15, Len(drivers)),
                            Positive(Slice(times_q1, 15, Len(times_q1))),
                            TimesAsText(
                              Positive(Slice(times_q1, 15, Len(times_q1)))))>>
                 ELSE <<>>
       IN [kind |-> "figure", traces |-> q3 \o q2 \o q1]

\* The chart of the qualifying tab is built from the results loaded.
CreateQualifyingChart ==
  /\ "create_qualifying_chart" \in pending
  /\ qualifying_chart' = create_qualifying_chart(qualifying_data)
  /\ pending' = pending \ {"create_qualifying_chart"}
  /\ UNCHANGED <<call, selector, requests, shown>>
  /\ UNCHANGED <<world_map, map_call, click_data, selected_circuit_data,
                 circuit_info_panel, detailed_section, track_loads,
                 track_figures, active_tab, results_loads, tab_content,
                 qualifying_data>>

\* create_qualifying_chart on any qualifying results.
InitQualifying ==
  /\ IdleCall
  /\ shown = NothingShown
  /\ qualifying_data \in QualifyingFrames
  /\ pending = {"create_qualifying_chart"}
  /\ world_map = Unset
  /\ map_call = Unset
  /\ click_data = Unset
  /\ selected_circuit_data = Unset
  /\ circuit_info_panel = Unset
  /\ detailed_section = [display |-> "none"]
  /\ track_loads = <<>>
  /\ track_figures = Unset
  /\ active_tab = "qualifying"
  /\ results_loads = <<>>
  /\ tab_content = Unset
  /\ qualifying_chart = Unset

NextQualifying == CreateQualifyingChart

SpecQualifying == InitQualifying /\ [][NextQualifying]_vars

\* ------------------------------------------------------- reading the state
\* The loads of one session of one round, as the provider logged them.
LoadsOf(round, session) ==
  SelectSeq(loads, LAMBDA l : l.RoundNumber = round /\ l.Session = session)

RowsOf(frame, driver) == SelectSeq(frame, LAMBDA r : r.Abbreviation = driver)

\* The driver has a row in the race results the provider returned for the round.
InRace(driver, round) ==
  \E k \in DOMAIN loads :
    /\ loads[k].RoundNumber = round /\ loads[k].Session = "R"
    /\ Len(RowsOf(loads[k].results, driver)) > 0

\* Race and sprint points the provider returned for (driver, round).
RacePointsOf(driver, round) ==
  LET r == LoadsOf(round, "R")
      rows == IF Len(r) = 0 THEN <<>> ELSE RowsOf(r[1].results, driver)
  IN IF Len(rows) = 0 THEN 0 ELSE rows[1].Points

LoadedSprintPointsOf(driver, round) ==
  LET s == LoadsOf(round, "S")
      rows == IF Len(s) = 0 THEN <<>> ELSE RowsOf(s[1].results, driver)
  IN IF Len(rows) = 0 THEN 0 ELSE rows[1].Points

\* The cell the claims expect for (driver, round): race plus sprint points,
\* 0 where the driver has no race record.
ExpectedCell(driver, round) ==
  IF InRace(driver, round)
  THEN RacePointsOf(driver, round) + LoadedSprintPointsOf(driver, round)
  ELSE 0

FigureShown == season_summary.kind = "figure"

\* The column of the matrix that holds a round, 0 when there is none.
ColumnOf(round) ==
  IF \E c \in DOMAIN season_summary.columns : season_summary.columns[c] = round
  THEN CHOOSE c \in DOMAIN season_summary.columns :
         season_summary.columns[c] = round
  ELSE 0

C2_RowsAscendByTotal ==
  FigureShown =>
    /\ \A a, b \in DOMAIN season_summary.total_points :
         a < b => season_summary.total_points[a] <= season_summary.total_points[b]
    /\ ( /\ Len(schedule) = 2
         /\ ExpectedCell("A", 1) = 25 /\ ExpectedCell("A", 2) = 18
         /\ ExpectedCell("B", 1) = 18 /\ ~InRace("B", 2) )
       => season_summary.y = <<"B", "A">>

\* The two-round scenario: B's row [18, 0] before A's row [25, 18].
C2_Witness ==
  /\ FigureShown
  /\ season_summary.y = <<"B", "A">>
  /\ season_summary.z = << <<18, 0>>, <<25, 18>> >>
  /\ season_summary.total_points = <<18, 43>>

\* C3: a driver with a row and no race record in a completed round has points
\* cell 0 and position "N/A" for that round, never "0" nor a finishing position.
C3_MissingIsZeroAndNA ==
  FigureShown =>
    \A j \in DOMAIN season_summary.y : \A k \in DOMAIN schedule :
      ~InRace(season_summary.y[j], schedule[k].RoundNumber) =>
        /\ season_summary.z[j][ColumnOf(schedule[k].RoundNumber)] = 0
        /\ season_summary.customdata[j][k].position = NA
        /\ season_summary.customdata[j][k].position
             \notin {"0"} \cup {ToString(n) : n \in 1..Len(Alphabet)}

\* A matrix with a driver who missed a completed round.
C3_Witness ==
  /\ FigureShown
  /\ \E j \in DOMAIN season_summary.y : \E k \in DOMAIN schedule :
       /\ ~InRace(season_summary.y[j], schedule[k].RoundNumber)
       /\ season_summary.customdata[j][k].position = NA
       /\ season_summary.z[j][ColumnOf(schedule[k].RoundNumber)] = 0

\* The events whose rows have been accumulated into standings.
Accumulated == {schedule[k] : k \in 1..(i - 1)}

RecordsOf(round) == SelectSeq(standings, LAMBDA r : r.RoundNumber = round)

\* C4: the points recorded for (driver, round) are the race points plus the
\* points of the sprint row with exactly the driver's abbreviation, 0 when the
\* event has no sprint or its sprint results hold no such row.
C4_EventPointsAreRacePlusSprint ==
  \A ev \in Accumulated :
    LET recs == RecordsOf(ev.RoundNumber)
    IN \A k \in DOMAIN recs :
         IF ev.EventFormat \in SprintFormats
         THEN /\ Len(LoadsOf(ev.RoundNumber, "S")) > 0
              /\ recs[k].Points
                   = RacePointsOf(recs[k].Driver, ev.RoundNumber)
                     + LoadedSprintPointsOf(recs[k].Driver, ev.RoundNumber)
         ELSE recs[k].Points = RacePointsOf(recs[k].Driver, ev.RoundNumber)

\* C5: no sprint session is requested for an event whose format is not a
\* sprint format, and the points recorded for its drivers are the race points.
C5_NoSprintOutsideSprintFormats ==
  /\ \A k \in DOMAIN loads :
       loads[k].Session = "S" =>
         \E e \in DOMAIN schedule :
           /\ schedule[e].RoundNumber = loads[k].RoundNumber
           /\ schedule[e].EventFormat \in SprintFormats
  /\ \A ev \in Accumulated :
       ev.EventFormat \notin SprintFormats =>
         LET recs == RecordsOf(ev.RoundNumber)
         IN /\ Len(recs) = Len(LoadsOf(ev.RoundNumber, "R")[1].results)
            /\ \A k \in DOMAIN recs :
                 recs[k].Points = RacePointsOf(recs[k].Driver, ev.RoundNumber)

\* A season with a conventional event that scored and a sprint event whose
\* sprint session was loaded.
C5_Witness ==
  /\ FigureShown
  /\ \E a, b \in DOMAIN schedule :
       /\ schedule[a].EventFormat = "conventional"
       /\ Len(RecordsOf(schedule[a].RoundNumber)) > 0
       /\ Len(LoadsOf(schedule[b].RoundNumber, "S")) > 0

\* C6: for every completed event whose format is one of the sprint formats
\* ('sprint', 'sprint_shootout', 'sprint_qualifying') the sprint results are
\* fetched and each driver's sprint points are part of the event points.
C6_EverySprintFormatIsFetched ==
  \A ev \in Accumulated :
    ev.EventFormat \in SprintFormats =>
      \E k \in DOMAIN loads :
        /\ loads[k].RoundNumber = ev.RoundNumber
        /\ loads[k].Session = "S"
        /\ \A r \in DOMAIN standings :
             standings[r].RoundNumber = ev.RoundNumber =>
               standings[r].Points
                 = RacePointsOf(standings[r].Driver, ev.RoundNumber)
                   + SprintPointsOf(Loaded(loads[k].results), standings[r].Driver)

\* C7: an event dated the current day or later contributes nothing: it is not
\* in the filtered schedule, no session of it is loaded, it gets no short name
\* and no column, whatever the time of day.
C7_OnlyEventsBeforeToday ==
  \A e \in DOMAIN provided :
    provided[e].EventDate >= now.day =>
      /\ \A k \in DOMAIN schedule : schedule[k] # provided[e]
      /\ \A k \in DOMAIN loads : loads[k].RoundNumber # provided[e].RoundNumber
      /\ \A k \in DOMAIN short_event_names :
           short_event_names[k] # ShortEventName(provided[e].EventName)
      /\ FigureShown => ColumnOf(provided[e].RoundNumber) = 0

\* C8: with zero completed events the run ends without an exception and the
\* season summary is an empty matrix, zero rows and zero columns.
C8_EmptySeasonIsEmptyMatrix ==
  (pc = "done" /\ now.day >= 1 /\ Len(schedule) = 0) =>
    /\ exc = None
    /\ FigureShown
    /\ Len(season_summary.y) = 0
    /\ Len(season_summary.columns) = 0

\* C9: once a race or sprint load has failed there is no matrix: the run ends
\* in the except branch with the empty season summary, and a figure that is
\* shown was computed from every completed event, none skipped.
C9_FailsClosed ==
  /\ (\E k \in DOMAIN loads : ~loads[k].ok) =>
       /\ pc = "done"
       /\ exc = ProviderError
       /\ season_summary = EmptyList
  /\ FigureShown =>
       /\ Len(season_summary.columns) = Len(schedule)
       /\ \A e \in DOMAIN schedule :
            /\ season_summary.columns[e] = schedule[e].RoundNumber
            /\ \E k \in DOMAIN loads :
                 /\ loads[k].RoundNumber = schedule[e].RoundNumber
                 /\ loads[k].Session = "R"
                 /\ loads[k].ok

\* A load that failed after the records of an earlier event were accumulated.
C9_Witness ==
  /\ pc = "done"
  /\ Len(standings) > 0
  /\ \E k \in DOMAIN loads : ~loads[k].ok
  /\ season_summary = EmptyList

\* The driver scored points in a session of a completed event.
Scored(driver) ==
  \E k \in DOMAIN loads :
    /\ loads[k].ok
    /\ \E r \in DOMAIN loads[k].results :
         /\ loads[k].results[r].Abbreviation = driver
         /\ loads[k].results[r].Points > 0

\* C10: the matrix has a row for every driver who scored points in any
\* completed event, a driver whose only points are sprint points included.
C10_EveryScorerHasARow ==
  FigureShown =>
    \A d \in Drivers :
      Scored(d) => \E j \in DOMAIN season_summary.y : season_summary.y[j] = d

\* C11: in every matrix built the list of short event names has as many
\* entries as the matrix has columns and its i-th name is the short name of
\* the event whose round is the i-th column, whatever the order of the
\* schedule's rows.
C11_ShortNamesAlignWithColumns ==
  FigureShown =>
    /\ Len(season_summary.x) = Len(season_summary.columns)
    /\ \A c \in DOMAIN season_summary.columns :
         \E e \in DOMAIN schedule :
           /\ schedule[e].RoundNumber = season_summary.columns[c]
           /\ season_summary.x[c] = ShortEventName(schedule[e].EventName)

\* An event name without its occurrences of "Grand Prix".
RECURSIVE WithoutGrandPrix(_)
WithoutGrandPrix(name) ==
  IF Len(name) = 0 THEN <<>>
  ELSE IF Head(name) = GP THEN WithoutGrandPrix(Tail(name))
  ELSE <<Head(name)>> \o WithoutGrandPrix(Tail(name))

\* A name from its first to its last token that is not a blank.
Trimmed(name) ==
  LET inked == {k \in DOMAIN name : name[k] # " "}
  IN IF inked = {} THEN <<>>
     ELSE SubSeq(name, CHOOSE k \in inked : \A m \in inked : k <= m,
                       CHOOSE k \in inked : \A m \in inked : k >= m)

\* C12: each short event name is the event's name with every occurrence of
\* "Grand Prix" removed and the blanks at both ends trimmed; a name without
\* "Grand Prix" is only trimmed.
C12_ShortNameIsNameWithoutGrandPrix ==
  \A k \in DOMAIN short_event_names :
    LET name == schedule[k].EventName
    IN /\ short_event_names[k] = Trimmed(WithoutGrandPrix(name))
       /\ (\A t \in DOMAIN name : name[t] # GP) =>
            short_event_names[k] = Trimmed(name)

\* A name with two occurrences of "Grand Prix" reduced to its one word.
C12_Witness ==
  \E k \in DOMAIN short_event_names :
    /\ schedule[k].EventName = <<GP, "Monaco", GP>>
    /\ short_event_names[k] = <<"Monaco">>

\* C13: in every matrix built no driver labels two rows and no round two
\* columns: each driver with a record has exactly one row, each completed
\* round exactly one column, and standings holds exactly one record for each
\* (driver, round) the race results list, none for the other pairs, whatever
\* the provider returned, results that repeat an abbreviation included.
C13_OneRecordPerDriverAndRound ==
  FigureShown =>
    /\ \A d \in Drivers :
         Cardinality({j \in DOMAIN season_summary.y : season_summary.y[j] = d})
           = IF \E k \in DOMAIN standings : standings[k].Driver = d
             THEN 1 ELSE 0
    /\ \A e \in DOMAIN schedule :
         Cardinality({c \in DOMAIN season_summary.columns :
                        season_summary.columns[c] = schedule[e].RoundNumber}) = 1
    /\ Len(season_summary.columns) = Len(schedule)
    /\ \A d \in Drivers : \A e \in DOMAIN schedule :
         Len(Entries(standings, d, schedule[e].RoundNumber))
           = IF InRace(d, schedule[e].RoundNumber) THEN 1 ELSE 0

\* A matrix of two drivers and two rounds, every pair with its record.
C13_Witness ==
  /\ FigureShown
  /\ Len(season_summary.y) = 2
  /\ Len(season_summary.columns) = 2
  /\ Len(standings) = 4

\* standings as the loop leaves it when it takes the completed events in the
\* order perm: the records of each event are those of its own results.
RECURSIVE RecordsInOrder(_, _)
RecordsInOrder(perm, k) ==
  IF k > Len(schedule) THEN <<>>
  ELSE RecordsOf(schedule[perm[k]].RoundNumber) \o RecordsInOrder(perm, k + 1)

\* C14: the matrix does not depend on the order in which the events were
\* processed: taken in any permutation, the same events and results give the
\* same columns (ascending round), the same frame to sort and so the same row
\* order, the same cells and the same totals as the matrix built.
C14_MatrixIndependentOfFetchOrder ==
  FigureShown =>
    \A perm \in RowOrders(Len(schedule)) :
      LET df == RecordsInOrder(perm, 1)
      IN /\ PivotColumns(df) = season_summary.columns
         /\ \A c \in 1..(Len(season_summary.columns) - 1) :
              season_summary.columns[c] < season_summary.columns[c + 1]
         /\ PivotIndex(df) = PivotIndex(standings)
         /\ SortedIndexes(df) = SortedIndexes(standings)
         /\ season_summary.y \in SortedIndexes(df)
         /\ \A j \in DOMAIN season_summary.y :
              /\ PointsRow(df, season_summary.y[j]) = season_summary.z[j]
              /\ TotalPoints(df, season_summary.y[j])
                   = season_summary.total_points[j]

\* A matrix of two rounds, one won by each driver: its records can be taken
\* in two orders, and the rows tie on their totals.
C14_Witness ==
  /\ FigureShown
  /\ Len(season_summary.columns) = 2
  /\ Len(season_summary.y) = 2
  /\ season_summary.z[1] # season_summary.z[2]
  /\ season_summary.total_points[1] = season_summary.total_points[2]

\* C15: last request wins: when the year selector was changed while a call
\* of load_initial_data was running, then once every call has responded the
\* three outputs hold what the call for the year now selected returned,
\* whatever the order in which the calls ran and responded.
C15_LastRequestWins ==
  (\A r \in DOMAIN requests : requests[r].at = "done") =>
    /\ requests[Len(requests)].year = selector
    /\ shown = requests[Len(requests)].returns

\* C16: when the fetch of a session of one event fails, the error that
\* load_initial_data reports identifies the season and the round of the
\* event whose fetch failed.
C16_ErrorNamesSeasonAndRound ==
  \A k \in DOMAIN loads :
    ~loads[k].ok =>
      \E m \in DOMAIN logged :
        /\ logged[m].season = loads[k].Season
        /\ logged[m].round = loads[k].RoundNumber

\* The sprint session this call loaded for a round, NoSprint if it loaded none.
SprintLoadedFor(round) ==
  IF Len(LoadsOf(round, "S")) = 0 THEN NoSprint
  ELSE Loaded(LoadsOf(round, "S")[1].results)

\* The records that the results this call was given yield for its first n
\* completed events.
RECURSIVE RecordsOfThisCall(_)
RecordsOfThisCall(n) ==
  IF n = 0 THEN <<>>
  ELSE RecordsOfThisCall(n - 1)
         \o EventRecords(schedule[n],
                         LoadsOf(schedule[n].RoundNumber, "R")[1].results,
                         SprintLoadedFor(schedule[n].RoundNumber))

\* C17: every call of load_initial_data computes the matrix anew, for the
\* year selected, from what the provider returns and the date read in that
\* call: its loads are of the selected year, its schedule is that year's
\* filtered by the date read, standings and short_event_names hold what the
\* events of this call gave and nothing of an earlier call, and the figure
\* returned is the one those records yield.
C17_EachCallRecomputesFromItsOwnData ==
  /\ \A k \in DOMAIN loads : loads[k].Season = selected_year
  /\ provided \in Schedules(selected_year) \cup {<<>>}
  /\ schedule = FilterOccurred(provided, now)
  /\ standings = RecordsOfThisCall(i - 1)
  /\ Len(short_event_names) \in {i - 1, i} \cap (0..Len(schedule))
  /\ \A k \in DOMAIN short_event_names :
       short_event_names[k] = ShortEventName(schedule[k].EventName)
  /\ FigureShown =>
       /\ i = Len(schedule) + 1
       /\ season_summary
            \in SummaryOutcomes(RecordsOfThisCall(Len(schedule)), schedule,
                                [k \in DOMAIN schedule |->
                                   ShortEventName(schedule[k].EventName)])

\* A matrix built by a call that followed an earlier call for another year.
C17_Witness ==
  /\ called
  /\ FigureShown
  /\ Len(season_summary.y) = 2
  /\ Len(season_summary.columns) = 2

\* C18: a failed fetch is not retried: no session of an event is loaded
\* twice, and a load that failed is the last load of the call, which has
\* ended in the except branch, so no later event is fetched.
C18_FailedFetchIsNotRetried ==
  /\ \A a, b \in DOMAIN loads :
       (loads[a].RoundNumber = loads[b].RoundNumber
          /\ loads[a].Session = loads[b].Session) => a = b
  /\ \A k \in DOMAIN loads :
       ~loads[k].ok =>
         /\ k = Len(loads)
         /\ pc = "done"
         /\ exc = ProviderError

\* The race of the first of two completed events failed to load: the call
\* has ended and the second event was never fetched.
C18_Witness ==
  /\ pc = "done"
  /\ Len(schedule) = 2
  /\ Len(loads) = 1
  /\ ~loads[1].ok
  /\ loads[1].RoundNumber = schedule[1].RoundNumber

\* The race loads asked so far, in the order they were asked.
RaceLoads == SelectSeq(loads, LAMBDA l : l.Session = "R")

\* How far the loop has come: the event it is at and the step within it.
LoopProgress ==
  3 * i + (IF pc = "race" THEN 0 ELSE IF pc = "sprint" THEN 1 ELSE 2)

InLoop == pc \in {"race", "sprint", "rows"}

C19_Sequential ==
  \* the n-th race load is the load of the n-th completed event, and a sprint
  \* load directly follows the race load of its own event
  /\ Len(RaceLoads) <= Len(schedule)
  /\ \A n \in DOMAIN RaceLoads :
       RaceLoads[n].RoundNumber = schedule[n].RoundNumber
  /\ \A k \in DOMAIN loads :
       loads[k].Session = "S" =>
         /\ k > 1
         /\ loads[k - 1].Session = "R"
         /\ loads[k - 1].RoundNumber = loads[k].RoundNumber
  \* when the race of an event has been asked for, the records of all events
  \* before it are in standings
  /\ Len(RaceLoads) \in {i - 1, i}
  /\ standings = RecordsOfThisCall(i - 1)
  \* never two loads of one session, and one race load for every completed
  \* event once the loop has been left without a failure
  /\ \A e \in DOMAIN schedule :
       /\ Len(LoadsOf(schedule[e].RoundNumber, "R")) <= 1
       /\ Len(LoadsOf(schedule[e].RoundNumber, "S")) <= 1
  /\ (pc \in {"build", "done"} /\ exc # ProviderError) =>
       /\ i = Len(schedule) + 1
       /\ \A e \in DOMAIN schedule :
            Len(LoadsOf(schedule[e].RoundNumber, "R")) = 1
  \* the loop is within the schedule and can always take its next step
  /\ InLoop => (i \in DOMAIN schedule /\ ENABLED Next)

\* C19: one call fetches the events one after the other and runs to
\* completion: loads are asked in schedule order, the race of the next event
\* only after the records of the event before are accumulated, each
\* completed event gets exactly one race load and at most one sprint load,
\* and every step of the loop brings it nearer to its end, which comes after
\* the last completed event.
C19_FetchesInOrderToCompletion ==
  /\ []C19_Sequential
  /\ [][InLoop =>
          \/ pc' = "done"
          \/ /\ LoopProgress' > LoopProgress
             /\ LoopProgress' <= 3 * (Len(schedule) + 1) + 2
             /\ pc' = "build" => i' = Len(schedule) + 1]_vars

\* A call that went through two events, one of them a sprint weekend, and
\* returned its figure.
C19_Witness ==
  /\ FigureShown
  /\ Len(schedule) = 2
  /\ Len(loads) = 3
  /\ Len(standings) = 4

\* C20: the three outputs of load_initial_data are all or nothing: when
\* loading the circuits, loading the races or building the season summary
\* raised, all three are empty lists; otherwise the circuits and the races
\* are those of the selected year and the figure is the one built from the
\* selected year's sessions. Nothing is returned before the call ends.
C20_OutputsAllOrNothing ==
  LET returned == <<circuits_data, races_data, season_summary>>
  IN IF pc # "done" THEN returned = <<Unset, Unset, Unset>>
     ELSE IF exc # None THEN returned = <<EmptyList, EmptyList, EmptyList>>
     ELSE /\ circuits_data = Records(CircuitsOf(selected_year))
          /\ races_data = Records(RacesOf(selected_year))
          /\ FigureShown
          /\ \A k \in DOMAIN loads : loads[k].Season = selected_year
          /\ season_summary
               \in SummaryOutcomes(standings, schedule, short_event_names)

\* Building the summary raised after the circuits and the races of the year
\* had been loaded: all three outputs are empty lists.
C20_Witness ==
  /\ pc = "done"
  /\ exc = KeyError
  /\ circuits_df = CircuitsOf(selected_year)
  /\ races_df = RacesOf(selected_year)
  /\ circuits_data = EmptyList
  /\ races_data = EmptyList
  /\ season_summary = EmptyList

\* The finishing position the provider returned for (driver, round), "N/A"
\* when the race results hold no row of the driver.
RacePositionOf(driver, round) ==
  LET r == LoadsOf(round, "R")
      rows == IF Len(r) = 0 THEN <<>> ELSE RowsOf(r[1].results, driver)
  IN IF Len(rows) = 0 THEN NA ELSE rows[1].Position

SelectionHandled == "handle_circuit_selection" \notin pending

\* The click carries the three customdata entries of a circuit of
\* circuits-data.
ClickedCircuitFound ==
  /\ click_data.kind = "dict"
  /\ ~Falsy(shown.circuits_data)
  /\ Len(click_data.points) > 0
  /\ Len(click_data.points[1]) >= 3
  /\ \E k \in DOMAIN shown.circuits_data.records :
       shown.circuits_data.records[k].circuitId = click_data.points[1][1]

\* The selection carries circuit_id, circuit_info and races_info of a
\* circuit of circuits-data.
SelectionOfStoredCircuit ==
  /\ DOMAIN selected_circuit_data =
       {"kind", "circuit_id", "circuit_info", "races_info"}
  /\ ~Falsy(shown.circuits_data)
  /\ \E k \in DOMAIN shown.circuits_data.records :
       /\ shown.circuits_data.records[k] = selected_circuit_data.circuit_info
       /\ selected_circuit_data.circuit_info.circuitId =
            selected_circuit_data.circuit_id
  /\ selected_circuit_data.races_info =
       IF Falsy(shown.races_data) THEN <<>>
       ELSE SelectSeq(shown.races_data.records,
              LAMBDA r : r.circuitId = selected_circuit_data.circuit_id)

\* C22: handle_circuit_selection shows the detailed section exactly when it
\* returns a selection carrying circuit_id, circuit_info and races_info of a
\* circuit found in circuits-data; for no click, empty circuits-data, a
\* customdata of fewer than 3 entries, an unknown circuit id or an exception
\* it returns {}, the placeholder panel and {'display': 'none'} together.
C22_DetailedSectionWithSelection ==
  SelectionHandled =>
    /\ detailed_section.display = "block" <=> SelectionOfStoredCircuit
    /\ detailed_section.display \in {"block", "none"}
    /\ ~ClickedCircuitFound =>
         /\ selected_circuit_data = EmptyDict
         /\ circuit_info_panel = create_empty_circuit_info
         /\ detailed_section.display = "none"
    /\ ClickedCircuitFound =>
         /\ detailed_section.display = "block"
         /\ selected_circuit_data.circuit_id = click_data.points[1][1]
         /\ circuit_info_panel =
              create_circuit_info_panel(selected_circuit_data.circuit_info,
                                        selected_circuit_data.races_info)

\* A click on c2 of a two-circuit table whose schedule visits c2 in round 2:
\* the section is shown with that race.
C22_Witness ==
  /\ SelectionHandled
  /\ click_data = Click(<<Customdata("c2")>>)
  /\ detailed_section.display = "block"
  /\ Len(shown.circuits_data.records) = 2
  /\ selected_circuit_data.circuit_id = "c2"
  /\ Len(selected_circuit_data.races_info) = 1
  /\ selected_circuit_data.races_info[1].round = 2

\* A click of an unknown circuit id on a non-empty table: nothing selected.
C22_WitnessUnknown ==
  /\ SelectionHandled
  /\ click_data = Click(<<Customdata(UnknownCircuit)>>)
  /\ ~Falsy(shown.circuits_data)
  /\ selected_circuit_data = EmptyDict
  /\ detailed_section.display = "none"

\* The circuitIds on the markers of the map shown.
DisplayedCircuits ==
  {world_map.customdata[k][1] : k \in DOMAIN world_map.customdata}

\* The circuitIds of a frame.
CircuitIdsOf(df) == {df[k].circuitId : k \in DOMAIN df}

\* C27: create_circuits_map displays, when races_df is non-empty and a year
\* is selected, exactly the circuits of circuits_df whose circuitId occurs in
\* races_df, with the highlighted marker; when races_df is None or empty or
\* no year is selected, every circuit with the muted marker; for an empty
\* circuits_df, and when update_world_map receives an empty circuits-data,
\* the empty map.
C27_MapShowsTheSeasonsCircuits ==
  world_map # Unset =>
    IF map_call = Unset
    THEN Falsy(shown.circuits_data) /\ world_map = EmptyMap
    ELSE LET circuits == map_call.circuits_df
             races == map_call.races_df
             filtered == /\ races.kind # "None"
                         /\ Len(races.records) > 0
                         /\ map_call.selected_year # NoYear
         IN IF Len(circuits) = 0 THEN world_map = EmptyMap
            ELSE /\ world_map.kind = "map"
                 /\ Len(world_map.customdata) = Cardinality(DisplayedCircuits)
                 /\ filtered =>
                      /\ DisplayedCircuits =
                           CircuitIdsOf(circuits) \cap CircuitIdsOf(races.records)
                      /\ world_map.marker = [color |-> "primary", size |-> 12]
                 /\ ~filtered =>
                      /\ DisplayedCircuits = CircuitIdsOf(circuits)
                      /\ world_map.marker = [color |-> "text_light", size |-> 8]

\* update_world_map on a table of c1 and c2 and a schedule that visits c2
\* only: the map shows c2 alone, highlighted.
C27_Witness ==
  /\ world_map # Unset
  /\ ~Falsy(shown.circuits_data)
  /\ Len(shown.circuits_data.records) = 2
  /\ map_call # Unset
  /\ map_call.races_df.kind = "list"
  /\ Len(map_call.races_df.records) = 2
  /\ world_map.kind = "map"
  /\ DisplayedCircuits = {"c2"}
  /\ world_map.marker.color = "primary"

\* create_circuits_map with races_df = None: both circuits, muted.
C27_WitnessAll ==
  /\ world_map # Unset
  /\ map_call # Unset
  /\ map_call.races_df = Unset
  /\ world_map.kind = "map"
  /\ DisplayedCircuits = {"c1", "c2"}
  /\ world_map.marker.color = "text_light"

\* update_3d_visualization has run on the selection of the state.
TrackDrawn == track_figures # Unset

ThreeEmptyFigures == track_figures = <<EmptyFigure, EmptyFigure, EmptyFigure>>

\* C25: update_3d_visualization returns three empty figures and loads
\* nothing from the provider when there is no selected circuit (empty data
\* or no circuit_id); whenever load_track_elevation_data or
\* load_race_positions_laps raises, or races_info is empty, all three
\* figures are empty, never a populated track next to an empty positions
\* figure.
C25_ThreeEmptyFiguresOrNone ==
  TrackDrawn =>
    /\ ~HasKey(selected_circuit_data, "circuit_id") =>
         ThreeEmptyFigures /\ track_loads = <<>>
    /\ (HasKey(selected_circuit_data, "races_info")
          /\ selected_circuit_data.races_info = <<>>) => ThreeEmptyFigures
    /\ (\E k \in DOMAIN track_loads : track_loads[k].raised) =>
         ThreeEmptyFigures
    /\ ThreeEmptyFigures \/
         /\ Len(track_loads) = 2
         /\ track_figures[1].kind = "track_3d"
         /\ track_figures[2].kind = "elevation"
         /\ track_figures[3].kind \in {"positions", "empty_chart"}

\* The load of the lap positions was asked after the track's and raised: the
\* selection names a race, both loads were made, nothing is drawn.
C25_Witness ==
  /\ TrackDrawn
  /\ HasKey(selected_circuit_data, "circuit_id")
  /\ Len(track_loads) = 2
  /\ track_loads[2].method = "load_race_positions_laps"
  /\ track_loads[2].raised
  /\ ThreeEmptyFigures

\* update_results_content has run on the tab and the selection of the state.
ResultsShown == tab_content # Unset

\* The builder each tab is answered with.
BuilderOf(tab) ==
  IF tab = "pole" THEN "create_pole_position_card"
  ELSE IF tab = "results" THEN "create_results_table"
  ELSE IF tab = "qualifying" THEN "create_qualifying_chart"
  ELSE "create_drivers_grid"

\* C26: update_results_content loads nothing from the provider when there is
\* no selected circuit or races_info is empty, and returns the placeholder of
\* the case; otherwise it loads the results of round races_info[0]['round']
\* and returns the content of the active tab (pole card, results table,
\* qualifying chart, drivers grid, 'Contenido no disponible' for any other
\* id); any exception yields the error message.
C26_ContentOfTheActiveTab ==
  ResultsShown =>
    IF ~HasKey(selected_circuit_data, "races_info")
    THEN /\ results_loads = <<>>
         /\ tab_content = Div("Selecciona un circuito para ver los resultados")
    ELSE IF selected_circuit_data.races_info = <<>>
    THEN /\ results_loads = <<>>
         /\ tab_content =
              Div("No hay datos de carreras disponibles para este circuito")
    ELSE LET round == selected_circuit_data.races_info[1].round
         IN /\ Len(results_loads) \in {1, 2}
            /\ results_loads[1].method = "load_race_results"
            /\ Len(results_loads) = 2 =>
                 results_loads[2].method = "get_qualifying_results"
            /\ \A k \in DOMAIN results_loads : results_loads[k].event = round
            /\ IF \E k \in DOMAIN results_loads : results_loads[k].raised
               THEN tab_content = Div("Error cargando datos de resultados")
               ELSE /\ Len(results_loads) = 2
                    /\ IF active_tab \in Tabs
                       THEN tab_content =
                              TabContent(BuilderOf(active_tab), selector, round)
                       ELSE tab_content = Div("Contenido no disponible")

\* The qualifying tab of a circuit raced twice in the season: the chart is
\* the one of the first of the two rounds.
C26_Witness ==
  /\ ResultsShown
  /\ active_tab = "qualifying"
  /\ HasKey(selected_circuit_data, "races_info")
  /\ Len(selected_circuit_data.races_info) = 2
  /\ tab_content.kind = "create_qualifying_chart"
  /\ tab_content.round = selected_circuit_data.races_info[1].round
  /\ tab_content.round # selected_circuit_data.races_info[2].round

\* Every callback of the page has returned.
PageAtRest == pending = {}

\* C23: after any sequence of year selections and map clicks, a non-empty
\* selected-circuit-data refers to the year now selected: its circuit_id is
\* in the current circuits-data and every record of its races_info has the
\* season the year selector shows.
C23_SelectionOfTheSelectedYear ==
  (PageAtRest /\ HasKey(selected_circuit_data, "circuit_id")) =>
    /\ ~Falsy(shown.circuits_data)
    /\ selected_circuit_data.circuit_id \in
         CircuitIdsOf(shown.circuits_data.records)
    /\ \A k \in DOMAIN selected_circuit_data.races_info :
         selected_circuit_data.races_info[k].season = selector

\* C24: after any sequence of year selections, map clicks and tab switches,
\* the (season, round) whose results update_results_content loads is the
\* (season, round) whose lap positions update_3d_visualization loads, the
\* season and round of races_info[0].
C24_ResultsAndPositionsOfOneRace ==
  PageAtRest =>
    \A k \in DOMAIN results_loads :
      /\ HasFirstRace(selected_circuit_data)
      /\ results_loads[k].season = selected_circuit_data.races_info[1].season
      /\ results_loads[k].event = selected_circuit_data.races_info[1].round
      /\ \A m \in DOMAIN track_loads :
           track_loads[m].method = "load_race_positions_laps" =>
             /\ track_loads[m].season = results_loads[k].season
             /\ track_loads[m].event = results_loads[k].event

\* The time of a driver in a segment of the qualifying results charted.
TimeOf(driver, segment) ==
  LET rows == SelectSeq(qualifying_data, LAMBDA row : DriverName(row) = driver)
  IN IF Len(rows) = 0 THEN NoTime
     ELSE IF segment = "Q1" THEN rows[1].Q1
     ELSE IF segment = "Q2" THEN rows[1].Q2
     ELSE rows[1].Q3

\* C28: in every bar trace create_qualifying_chart builds (Q3 of the first
\* 10 drivers, Q2 of the drivers 11-15, Q1 of the rest) x, y and text have
\* the same length and the i-th time is the time of the i-th driver, also
\* when a driver of the slice has no positive time.
C28_BarsPairDriversAndTimes ==
  (qualifying_chart # Unset /\ qualifying_chart.kind = "figure") =>
    \A k \in DOMAIN qualifying_chart.traces :
      LET bar == qualifying_chart.traces[k]
      IN /\ Len(bar.x) = Len(bar.y)
         /\ Len(bar.x) = Len(bar.text)
         /\ \A n \in DOMAIN bar.x :
              /\ bar.y[n] = TimeOf(bar.x[n], bar.name)
              /\ bar.text[n] = SecondsToTime(bar.y[n])

====
